---- MODULE Spec2Model ----
(***************************************************************************)
(* Model of src/src/image_generator/main.py: the playlist-cover service.   *)
(* A string is a sequence of one-character strings, so that formatting,    *)
(* concatenation and replacement are computed as the code computes them.   *)
(***************************************************************************)
EXTENDS Integers, Sequences, FiniteSets, TLC

(* ------------------------------------------------------------------ *)
(* Bounds of the model                                                  *)
(* ------------------------------------------------------------------ *)
\* number of requests the model lets be in flight
NReq == 2
\* number of worker processes (event loops) sharing IMAGE_DIR
NWorkers == 2

Reqs == 1..NReq
Workers == 1..NWorkers

(* ------------------------------------------------------------------ *)
(* Strings                                                              *)
(* ------------------------------------------------------------------ *)
Digits == <<"0", "1", "2", "3", "4", "5", "6", "7", "8", "9">>

RECURSIVE Concat(_)
Concat(parts) ==
    IF parts = <<>> THEN <<>> ELSE Head(parts) \o Concat(Tail(parts))

\* str(n) for n >= 0, as an f-string formats an int
RECURSIVE IntToStr(_)
IntToStr(n) ==
    IF n < 10 THEN <<Digits[n + 1]>>
    ELSE IntToStr(n \div 10) \o <<Digits[(n % 10) + 1]>>

\* f"{n:02d}" for n >= 0
Pad2(n) == IF n < 10 THEN <<"0">> \o IntToStr(n) ELSE IntToStr(n)

\* s.replace(a, b) for one-character a and b
Replace(s, a, b) == [k \in 1..Len(s) |-> IF s[k] = a THEN b ELSE s[k]]

Whitespace == {" ", "\t", "\n", "\r"}
HasWhitespace(s) == \E k \in 1..Len(s) : s[k] \in Whitespace

(* ------------------------------------------------------------------ *)
(* Module constants                                                     *)
(* ------------------------------------------------------------------ *)
january == <<"j", "a", "n", "u", "a", "r", "y">>
february == <<"f", "e", "b", "r", "u", "a", "r", "y">>
march == <<"m", "a", "r", "c", "h">>
april == <<"a", "p", "r", "i", "l">>
may == <<"m", "a", "y">>
june == <<"j", "u", "n", "e">>
july == <<"j", "u", "l", "y">>
august == <<"a", "u", "g", "u", "s", "t">>
september == <<"s", "e", "p", "t", "e", "m", "b", "e", "r">>
october == <<"o", "c", "t", "o", "b", "e", "r">>
november == <<"n", "o", "v", "e", "m", "b", "e", "r">>
december == <<"d", "e", "c", "e", "m", "b", "e", "r">>

\* class Month(str, Enum), in declaration order
Month == <<january, february, march, april, may, june, july, august,
           september, october, november, december>>

IsMonth(m) == \E k \in 1..Len(Month) : Month[k] = m

\* list(Month).index(month)
MonthIndex(m) == (CHOOSE k \in 1..Len(Month) : Month[k] = m) - 1

\* S3_URL = os.getenv("S3_URL", ""): one fixed endpoint of the deployment
S3_URL == <<"s", "3", ".", "x">>
IMAGE_SIZE == [w |-> 600, h |-> 600]
\* os.getenv("IMAGE_DIR", DEFAULT_IMAGE_DIR)
DEFAULT_IMAGE_DIR == <<"/", "t", "m", "p">>
PLAYLIST_COVER_BUCKET ==
    <<"p", "l", "a", "y", "l", "i", "s", "t", "-", "c", "o", "v", "e", "r", "s">>
\* API_KEY = os.getenv("API_KEY", ""), non-empty or the module raises at import
API_KEY == <<"k", "1">>

\* Field(ge=2025), Field(ge=1, le=31)
YearMin == 2025
DayMin == 1
DayMax == 31

\* os.path.join(dir, name) for a relative name and a dir without trailing slash
PathJoin(dir, name) == dir \o <<"/">> \o name

(* ------------------------------------------------------------------ *)
(* Authentication: get_api_key                                          *)
(* ------------------------------------------------------------------ *)
\* "0xE9" stands for one latin-1 character outside ASCII in a header value
NonAscii == {"0xE9"}
IsAscii(s) == \A k \in 1..Len(s) : s[k] \notin NonAscii

\* secrets.compare_digest on two str: TypeError unless both are ASCII
CompareDigest(a, b) ==
    IF IsAscii(a) /\ IsAscii(b)
    THEN [raises |-> FALSE, equal |-> (a = b)]
    ELSE [raises |-> TRUE, equal |-> FALSE]

NoUrl == <<>>
Response(st, det, u, e) == [status |-> st, detail |-> det, url |-> u, exc |-> e]
NoResponse == Response(0, "", NoUrl, "")

\* the provided key is None (header absent) or a str
AbsentHeader == [present |-> FALSE, value |-> <<>>]
Header(v) == [present |-> TRUE, value |-> v]

\* `not provided_key`: None or the empty string
Falsy(h) == ~h.present \/ h.value = <<>>

MissingKeyResponse == Response(401, "Missing API Key", NoUrl, "HTTPException")
InvalidKeyResponse == Response(401, "Invalid API Key", NoUrl, "HTTPException")
InternalError(e) == Response(500, "Internal Server Error", NoUrl, e)
Passed == Response(0, "", NoUrl, "")

\* (mutant) one generic message for a missing and for a wrong key
get_api_key_generic(h) ==
    IF Falsy(h) THEN InvalidKeyResponse
    ELSE LET c == CompareDigest(h.value, API_KEY) IN
         IF c.raises THEN InternalError("TypeError")
         ELSE IF ~c.equal THEN InvalidKeyResponse
         ELSE Passed

\* get_api_key: Passed when the key is returned, otherwise the error response
get_api_key(h) ==
    IF Falsy(h) THEN MissingKeyResponse
    ELSE LET c == CompareDigest(h.value, API_KEY) IN
         IF c.raises THEN InternalError("TypeError")
         ELSE IF ~c.equal THEN InvalidKeyResponse
         ELSE Passed

(* ------------------------------------------------------------------ *)
(* Request bodies and their validation (pydantic models)                *)
(* ------------------------------------------------------------------ *)
MonthlyBody(m, y) == [kind |-> "monthly", month |-> m, year |-> y]
WeeklyBody(y1, m1, d1, y2, m2, d2) ==
    [kind |-> "weekly", year1 |-> y1, month1 |-> m1, day1 |-> d1,
     year2 |-> y2, month2 |-> m2, day2 |-> d2]
NoBody == [kind |-> "none"]

\* CreateMonthlyPlaylistCover: month: Month, year: int = Field(..., ge=2025)
ValidMonthly(b) == IsMonth(b.month) /\ b.year >= YearMin

ValidYear(y) == y >= YearMin
\* (mutant) the upper limit of a day is missing
ValidDayNoUpper(d) == d >= DayMin
ValidDay(d) == d >= DayMin /\ d <= DayMax

\* CreateWeeklyPlaylistCover: six fields, each with its own constraint
ValidWeekly(b) ==
    /\ ValidYear(b.year1) /\ IsMonth(b.month1) /\ ValidDay(b.day1)
    /\ ValidYear(b.year2) /\ IsMonth(b.month2) /\ ValidDay(b.day2)

Valid(b) == IF b.kind = "monthly" THEN ValidMonthly(b) ELSE ValidWeekly(b)

ValidationError == Response(422, "Unprocessable Entity", NoUrl, "ValidationError")

(* ------------------------------------------------------------------ *)
(* Layout and rendering                                                 *)
(* ------------------------------------------------------------------ *)
\* int(bg.w * 0.9) and int(bg.h * 0.15); on the 600x600 canvas the double
\* products are exactly 540.0 and 90.0, as the integer quotients are
RectW(w) == (w * 9) \div 10
\* (mutant) the width factor used for the height
RectHAsWidth(h) == (h * 9) \div 10
RectH(h) == (h * 15) \div 100
\* margin = 20
Margin == 20
\* the literal inset of the monthly text: with_position((x_pos + 20, y_pos))
MonthlyTextInset == 20

Plaque(x, y, w, h, inset, label) ==
    [x |-> x, y |-> y, w |-> w, h |-> h, tx |-> x + inset, ty |-> y, label |-> label]

\* ColorHash(text): a deterministic function of the text alone
ColorHash(text) == [hashOf |-> text]

\* _generate_monthly_image: the composite [bg, rect, txt]
MonthlyImage(text) ==
    LET bg == IMAGE_SIZE
        x_pos == bg.w - RectW(bg.w)
        y_pos == bg.h - RectH(bg.h) - Margin
    IN [size |-> bg, color |-> ColorHash(text),
        plaques |-> <<Plaque(x_pos, y_pos, RectW(bg.w), RectH(bg.h),
                             MonthlyTextInset, text)>>]

\* f"{(list(Month).index(month) + 1):02d}/{day:02d}/{year}"
FormatWeeklyDate(month, day, year) ==
    Concat(<<Pad2(MonthIndex(month) + 1), <<"/">>, Pad2(day), <<"/">>, IntToStr(year)>>)

\* _generate_weekly_image: the composite [bg, rect1, date1txt, rect2, date2txt]
WeeklyImage(date1, date2) ==
    LET bg == IMAGE_SIZE
        x2 == bg.w - RectW(bg.w)
        y2 == bg.h - RectH(bg.h) - Margin
    IN [size |-> bg, color |-> ColorHash(Concat(<<date1, <<" ">>, date2>>)),
        plaques |-> <<Plaque(0, Margin, RectW(bg.w), RectH(bg.h), Margin, date1),
                      Plaque(x2, y2, RectW(bg.w), RectH(bg.h), Margin, date2)>>]

PngExt == <<".", "p", "n", "g">>

\* name = f"{playlist.month.value}_{playlist.year}.png"
MonthlyName(b) == Concat(<<b.month, <<"_">>, IntToStr(b.year), PngExt>>)
\* text = f"{playlist.month.value} {playlist.year}"
MonthlyText(b) == Concat(<<b.month, <<" ">>, IntToStr(b.year)>>)

WeeklyDate1(b) == FormatWeeklyDate(b.month1, b.day1, b.year1)
WeeklyDate2(b) == FormatWeeklyDate(b.month2, b.day2, b.year2)
\* f"{date1.replace('/', '-')}-{date2.replace('/', '-')}.png"
WeeklyName(b) ==
    Concat(<<Replace(WeeklyDate1(b), "/", "-"), <<"-">>,
             Replace(WeeklyDate2(b), "/", "-"), PngExt>>)

\* dest = os.path.join(os.getenv("IMAGE_DIR", DEFAULT_IMAGE_DIR), name)
Dest(b) ==
    PathJoin(DEFAULT_IMAGE_DIR, IF b.kind = "monthly" THEN MonthlyName(b) ELSE WeeklyName(b))

\* what save_frame writes for the request body b
Image(b) ==
    IF b.kind = "monthly" THEN MonthlyImage(MonthlyText(b))
    ELSE WeeklyImage(WeeklyDate1(b), WeeklyDate2(b))

(* ------------------------------------------------------------------ *)
(* Object names and urls                                                *)
(* ------------------------------------------------------------------ *)
\* (mutant) the file name of the temporary file used as the key's tail
MonthlyObjectNameFlat(b) ==
    Concat(<<<<"m", "o", "n", "t", "h", "l", "y", "/">>, MonthlyName(b)>>)

\* object_name = f"monthly/{playlist.year}/{playlist.month.value}.png"
MonthlyObjectName(b) ==
    Concat(<<<<"m", "o", "n", "t", "h", "l", "y", "/">>, IntToStr(b.year), <<"/">>,
             b.month, PngExt>>)

\* (mutant) the first date's year and month name the directories
WeeklyObjectNameByStart(b) ==
    Concat(<<<<"w", "e", "e", "k", "l", "y", "/">>, IntToStr(b.year1), <<"/">>,
             b.month1, <<"/">>, b.month1, <<"_">>, IntToStr(b.day1), <<"-">>,
             b.month2, <<"_">>, IntToStr(b.day2), PngExt>>)

\* object_name = f"weekly/{year2}/{month2}/{month1}_{day1}-{month2}_{day2}.png"
WeeklyObjectName(b) ==
    Concat(<<<<"w", "e", "e", "k", "l", "y", "/">>, IntToStr(b.year2), <<"/">>,
             b.month2, <<"/">>, b.month1, <<"_">>, IntToStr(b.day1), <<"-">>,
             b.month2, <<"_">>, IntToStr(b.day2), PngExt>>)

ObjectName(b) == IF b.kind = "monthly" THEN MonthlyObjectName(b) ELSE WeeklyObjectName(b)

\* f"https://{S3_URL}/{PLAYLIST_COVER_BUCKET}/{object_name}"
Url(object_name) ==
    Concat(<<<<"h", "t", "t", "p", "s", ":", "/", "/">>, S3_URL, <<"/">>,
             PLAYLIST_COVER_BUCKET, <<"/">>, object_name>>)

\* return {"url": ...}
OkResponse(object_name) == Response(200, "", Url(object_name), "")

(* ------------------------------------------------------------------ *)
(* Inputs of the model                                                  *)
(* ------------------------------------------------------------------ *)
WrongKey == <<"k", "2">>
NonAsciiKey == <<"k", "0xE9">>
HeaderInputs ==
    {AbsentHeader, Header(<<>>), Header(API_KEY), Header(WrongKey), Header(NonAsciiKey)}

NotAMonth == <<"m", "a", "r", "c", "h", "h">>
MonthInputs == {march, june, NotAMonth}
YearInputs == (YearMin - 1)..(YearMin + 1)
DayInputs == {DayMin - 1, DayMin, DayMax, DayMax + 1}

MonthlyInputs == {MonthlyBody(m, y) : m \in MonthInputs, y \in YearInputs}

BaseWeekly == WeeklyBody(YearMin, march, DayMin, YearMin, march, DayMax)
WeeklyFields == {"year1", "month1", "day1", "year2", "month2", "day2"}
FieldInputs(f) ==
    IF f \in {"year1", "year2"} THEN YearInputs
    ELSE IF f \in {"month1", "month2"} THEN MonthInputs
    ELSE DayInputs
\* the weekly bodies that differ from BaseWeekly in at most one field
WeeklyInputs ==
    {[BaseWeekly EXCEPT ![f] = v] : <<f, v>> \in
        UNION {{<<g, u>> : u \in FieldInputs(g)} : g \in WeeklyFields}}

BodyInputs == MonthlyInputs \cup WeeklyInputs

\* the bodies of the requests that run beside request 1: a repeat of what
\* request 1 may send, a body one field away from it, and a rejected one
BesideInputs ==
    {MonthlyBody(june, YearMin), MonthlyBody(june, YearMin - 1),
     [BaseWeekly EXCEPT !.year1 = YearMin + 1]}

InputsOf(i) == IF i = 1 THEN BodyInputs ELSE BesideInputs

(* ------------------------------------------------------------------ *)
(* State                                                                *)
(* ------------------------------------------------------------------ *)
VARIABLES
    pc,      \* pc[i]: where request i is
    hdr,     \* hdr[i]: the X-API-Key header of request i
    body,    \* body[i]: the parsed request body, NoBody before it is read
    worker,  \* worker[i]: the event loop running i's handler body, 0 if none
    saved,   \* saved[i]: save_frame has returned for request i
    puts,    \* puts[i]: the put_object calls made for request i, in order
    resp,    \* resp[i]: the response sent for request i
    fs       \* fs[path]: the file at path under IMAGE_DIR

vars == <<pc, hdr, body, worker, saved, puts, resp, fs>>

Init ==
    /\ pc = [i \in Reqs |-> "idle"]
    /\ hdr = [i \in Reqs |-> AbsentHeader]
    /\ body = [i \in Reqs |-> NoBody]
    /\ worker = [i \in Reqs |-> 0]
    /\ saved = [i \in Reqs |-> FALSE]
    /\ puts = [i \in Reqs |-> <<>>]
    /\ resp = [i \in Reqs |-> NoResponse]
    /\ fs = [p \in {} |-> 0]

\* an async handler body has no await: one event loop runs one at a time
LoopFree(w) == \A j \in Reqs : worker[j] # w

WriteFile(path, f) == [p \in (DOMAIN fs) \cup {path} |-> IF p = path THEN f ELSE fs[p]]

File(i, done) == [writer |-> i, complete |-> done, image |-> Image(body[i])]

\* another request is between opening and closing the same destination
Overlapped(i) ==
    \E j \in Reqs \ {i} : pc[j] = "rendering" /\ Dest(body[j]) = Dest(body[i])

\* the requests beside request 1 are told apart by index only: they arrive
\* in index order
MayArrive(i) == \A j \in Reqs : (1 < j /\ j < i) => pc[j] # "idle"

\* (mutant) the upload starts while save_frame is still writing
ReachedUploadEarly(i) == pc[i] \in {"rendering", "rendered"}

\* line 195 is reached once _generate_*_image has returned
ReachedUpload(i) == pc[i] = "rendered"

\* (mutant) the exception of put_object is swallowed and the url returned
PutRaisedReturnsUrl(b) == OkResponse(ObjectName(b))

\* the response of a handler that put_object left with an exception
PutRaised(b) == InternalError("S3Error")

\* the put_object call of the handler for body b, reading the file as it is
PutCall(b, ok) ==
    [bucket_name |-> PLAYLIST_COVER_BUCKET, object_name |-> ObjectName(b),
     path |-> Dest(b), data |-> fs[Dest(b)], ok |-> ok]

(* ------------------------------------------------------------------ *)
(* Actions                                                              *)
(* ------------------------------------------------------------------ *)
\* Depends(get_api_key): the request arrives with its header
Authenticate(i) ==
    /\ pc[i] = "idle"
    /\ MayArrive(i)
    /\ \E h \in HeaderInputs :
        LET r == get_api_key(h) IN
        /\ hdr' = [hdr EXCEPT ![i] = h]
        /\ IF r = Passed
           THEN pc' = [pc EXCEPT ![i] = "authed"] /\ resp' = resp
           ELSE pc' = [pc EXCEPT ![i] = "done"] /\ resp' = [resp EXCEPT ![i] = r]
    /\ UNCHANGED <<body, worker, saved, puts, fs>>

\* the body is parsed into CreateMonthlyPlaylistCover / CreateWeeklyPlaylistCover
Validate(i) ==
    /\ pc[i] = "authed"
    /\ \E b \in InputsOf(i) :
        /\ body' = [body EXCEPT ![i] = b]
        /\ IF Valid(b)
           THEN pc' = [pc EXCEPT ![i] = "validated"] /\ resp' = resp
           ELSE /\ pc' = [pc EXCEPT ![i] = "done"]
                /\ resp' = [resp EXCEPT ![i] = ValidationError]
    /\ UNCHANGED <<hdr, worker, saved, puts, fs>>

\* the handler body starts on an idle event loop (the workers are
\* interchangeable: the lowest-numbered idle one); save_frame opens dest for
\* writing
RenderBegin(i) ==
    /\ pc[i] = "validated"
    /\ \E w \in Workers :
        /\ LoopFree(w)
        /\ \A v \in Workers : v < w => ~LoopFree(v)
        /\ worker' = [worker EXCEPT ![i] = w]
    /\ fs' = WriteFile(Dest(body[i]), File(i, FALSE))
    /\ pc' = [pc EXCEPT ![i] = "rendering"]
    /\ UNCHANGED <<hdr, body, saved, puts, resp>>

\* save_frame returns: the file is written and closed
RenderEnd(i) ==
    /\ pc[i] = "rendering"
    /\ \E whole \in (IF Overlapped(i) THEN BOOLEAN ELSE {TRUE}) :
        fs' = WriteFile(Dest(body[i]), File(i, whole))
    /\ saved' = [saved EXCEPT ![i] = TRUE]
    /\ pc' = [pc EXCEPT ![i] = "rendered"]
    /\ UNCHANGED <<hdr, body, worker, puts, resp>>

\* rendering raises, before the file is opened or while it is written:
\* the exception leaves the handler
RenderRaises(i) ==
    /\ \/ pc[i] = "validated" /\ \E w \in Workers : LoopFree(w)
       \/ pc[i] = "rendering"
    /\ pc' = [pc EXCEPT ![i] = "done"]
    /\ resp' = [resp EXCEPT ![i] = InternalError("RenderError")]
    /\ worker' = [worker EXCEPT ![i] = 0]
    /\ UNCHANGED <<hdr, body, saved, puts, fs>>

\* open(path, 'rb'), os.path.getsize(path) and client.put_object(...)
PutObject(i) ==
    /\ ReachedUpload(i)
    /\ \E ok \in BOOLEAN :
        /\ puts' = [puts EXCEPT ![i] = Append(@, PutCall(body[i], ok))]
        /\ pc' = [pc EXCEPT ![i] = IF ok THEN "uploaded" ELSE "done"]
        /\ IF ok
           THEN resp' = resp /\ worker' = worker
           ELSE /\ resp' = [resp EXCEPT ![i] = PutRaised(body[i])]
                /\ worker' = [worker EXCEPT ![i] = 0]
    /\ UNCHANGED <<hdr, body, saved, fs>>

\* return {"url": ...}
Respond(i) ==
    /\ pc[i] = "uploaded"
    /\ resp' = [resp EXCEPT ![i] = OkResponse(ObjectName(body[i]))]
    /\ worker' = [worker EXCEPT ![i] = 0]
    /\ pc' = [pc EXCEPT ![i] = "done"]
    /\ UNCHANGED <<hdr, body, saved, puts, fs>>

Next ==
    \E i \in Reqs :
        \/ Authenticate(i)
        \/ Validate(i)
        \/ RenderBegin(i)
        \/ RenderEnd(i)
        \/ RenderRaises(i)
        \/ PutObject(i)
        \/ Respond(i)

Spec == Init /\ [][Next]_vars

(* ------------------------------------------------------------------ *)
(* Vocabulary of the properties                                         *)
(* ------------------------------------------------------------------ *)
Done(i) == pc[i] = "done"
LastPut(i) == puts[i][Len(puts[i])]
\* request i has opened its destination file for writing
Wrote(i) == pc[i] \in {"rendering", "rendered", "uploaded"} \/ saved[i]
\* request i has entered the handler body
InHandler(i) == worker[i] # 0 \/ Wrote(i) \/ puts[i] # <<>> \/ resp[i].status = 200
UploadedKind(i, k) == puts[i] # <<>> /\ body[i].kind = k

\* the pieces of s between occurrences of the character sep
RECURSIVE SplitFrom(_, _, _)
SplitFrom(s, sep, cur) ==
    IF s = <<>> THEN <<cur>>
    ELSE IF Head(s) = sep THEN <<cur>> \o SplitFrom(Tail(s), sep, <<>>)
    ELSE SplitFrom(Tail(s), sep, Append(cur, Head(s)))
Split(s, sep) == SplitFrom(s, sep, <<>>)

DigitValue(c) == (CHOOSE k \in 1..10 : Digits[k] = c) - 1
IsNumeral(s) == s # <<>> /\ \A k \in 1..Len(s) : \E d \in 1..10 : Digits[d] = s[k]
RECURSIVE ParseInt(_)
ParseInt(s) ==
    IF s = <<>> THEN 0 ELSE 10 * ParseInt(SubSeq(s, 1, Len(s) - 1)) + DigitValue(s[Len(s)])

CanonicalMonths == {Month[k] : k \in 1..12}
Lower == {"a", "b", "c", "d", "e", "f", "g", "h", "i", "j", "k", "l", "m",
          "n", "o", "p", "q", "r", "s", "t", "u", "v", "w", "x", "y", "z"}
IsLower(s) == \A k \in 1..Len(s) : s[k] \in Lower

(* ------------------------------------------------------------------ *)
(* C1                                                                   *)
(* ------------------------------------------------------------------ *)
\* C1: a response carries a url only when the request's put_object call for
\* its own object key has returned without error, and the url is the one of
\* that key; a request that ended without such a call (authentication,
\* validation, rendering or put_object failed) carries no url.
C1_UrlOnlyAfterPut ==
    \A i \in Reqs :
        /\ resp[i].url # NoUrl =>
            /\ puts[i] # <<>>
            /\ LastPut(i).ok
            /\ LastPut(i).object_name = ObjectName(body[i])
            /\ resp[i].url = Url(LastPut(i).object_name)
        /\ (Done(i) /\ (puts[i] = <<>> \/ ~LastPut(i).ok)) =>
            /\ resp[i].url = NoUrl
            /\ resp[i].status # 200
        /\ resp[i].exc # "" => resp[i].url = NoUrl

\* one request got its url after a successful upload, another one's upload failed
C1_Witness ==
    \E i, j \in Reqs :
        /\ resp[i].status = 200 /\ resp[i].url # NoUrl
        /\ Done(j) /\ resp[j].exc = "S3Error" /\ puts[j] # <<>>

(* ------------------------------------------------------------------ *)
(* C2                                                                   *)
(* ------------------------------------------------------------------ *)
\* C2: put_object is called at most once per request and only after
\* save_frame has returned; a handler that got past the render step has
\* called it exactly once when it ends; a request whose rendering raised
\* has no call; a failed call is not repeated.
C2_PutOnceAfterSave ==
    \A i \in Reqs :
        /\ Len(puts[i]) <= 1
        /\ puts[i] # <<>> => saved[i]
        /\ (saved[i] /\ pc[i] \in {"uploaded", "done"}) => Len(puts[i]) = 1
        /\ resp[i].exc = "RenderError" => puts[i] = <<>>
        /\ ~saved[i] => puts[i] = <<>>

\* one request uploaded once and failed there, another one's rendering raised
C2_Witness ==
    \E i, j \in Reqs :
        /\ Done(i) /\ saved[i] /\ Len(puts[i]) = 1 /\ ~LastPut(i).ok
        /\ Done(j) /\ resp[j].exc = "RenderError" /\ puts[j] = <<>>

(* ------------------------------------------------------------------ *)
(* C3                                                                   *)
(* ------------------------------------------------------------------ *)
WrongHeader(h) == ~h.present \/ h.value = <<>> \/ h.value # API_KEY

\* C3: a request whose X-API-Key is missing, empty or different from the
\* configured key is answered 401 and neither renders nor uploads; only a
\* request whose key equals the configured key reaches the handler body.
C3_Original ==
    \A i \in Reqs :
        /\ (pc[i] # "idle" /\ WrongHeader(hdr[i])) =>
            /\ Done(i) /\ resp[i].status = 401
            /\ ~Wrote(i) /\ puts[i] = <<>>
        /\ InHandler(i) => (hdr[i].present /\ hdr[i].value = API_KEY)

(* ------------------------------------------------------------------ *)
(* C4                                                                   *)
(* ------------------------------------------------------------------ *)
BadYear(y) == y < 2025
BadMonth(m) == m \notin CanonicalMonths
BadDay(d) == d < 1 \/ d > 31
FailsValidation(b) ==
    \/ b.kind = "monthly" /\ (BadYear(b.year) \/ BadMonth(b.month))
    \/ b.kind = "weekly" /\
        (\/ BadYear(b.year1) \/ BadMonth(b.month1) \/ BadDay(b.day1)
         \/ BadYear(b.year2) \/ BadMonth(b.month2) \/ BadDay(b.day2))

Writing(i) == pc[i] \in {"rendering", "rendered", "uploaded"}

\* C5: two requests in flight write different temporary paths, and what a
\* request passes to put_object is the complete image that request rendered.
C5_Original ==
    /\ \A i, j \in Reqs :
        (i # j /\ Writing(i) /\ Writing(j)) => Dest(body[i]) # Dest(body[j])
    /\ \A i \in Reqs : \A k \in 1..Len(puts[i]) :
        /\ puts[i][k].data.writer = i
        /\ puts[i][k].data.complete
        /\ puts[i][k].data.image = Image(body[i])

(* ------------------------------------------------------------------ *)
(* C9                                                                   *)
(* ------------------------------------------------------------------ *)
\* C9: the response to a request without X-API-Key and the response to a
\* request with a wrong X-API-Key are identical (stated for the wrong keys
\* that compare_digest accepts, which is where the two messages are chosen).
C9_Original ==
    \A i, j \in Reqs :
        (/\ Done(i) /\ ~hdr[i].present
         /\ Done(j) /\ hdr[j].present /\ hdr[j].value # API_KEY
         /\ hdr[j].value # <<>> /\ IsAscii(hdr[j].value)) =>
            (resp[i].status = resp[j].status /\ resp[i].detail = resp[j].detail)

\* C9 as amended: a request without a key (or with an empty one) is answered
\* 401 "Missing API Key"; a 401 for a key that was provided carries the
\* detail "Invalid API Key": the status is the same, the detail tells the
\* two cases apart.
C9_DetailTellsApart ==
    \A i \in Reqs :
        /\ (pc[i] # "idle" /\ Falsy(hdr[i])) =>
            (resp[i].status = 401 /\ resp[i].detail = "Missing API Key")
        /\ (resp[i].status = 401 /\ ~Falsy(hdr[i])) =>
            (hdr[i].value # API_KEY /\ resp[i].detail = "Invalid API Key")
        /\ resp[i].status = 401 => resp[i].detail \in {"Missing API Key", "Invalid API Key"}

\* one request came without the header and one with a wrong key
C9_Witness ==
    \E i, j \in Reqs :
        /\ Done(i) /\ ~hdr[i].present /\ resp[i].status = 401
        /\ Done(j) /\ hdr[j] = Header(WrongKey) /\ resp[j].status = 401

(* ------------------------------------------------------------------ *)
(* C6                                                                   *)
(* ------------------------------------------------------------------ *)
\* C6: two validated requests of the same endpoint that differ in any field
\* pass different object keys to put_object.
C6_Original ==
    \A i, j \in Reqs :
        (/\ puts[i] # <<>> /\ puts[j] # <<>>
         /\ body[i].kind = body[j].kind
         /\ body[i] # body[j]) =>
            LastPut(i).object_name # LastPut(j).object_name

(* ------------------------------------------------------------------ *)
(* C7                                                                   *)
(* ------------------------------------------------------------------ *)
\* the label "<month-name> <day>" of the specification
DateLabel(m, d) == Concat(<<m, <<" ">>, IntToStr(d)>>)
\* weekly/{year}/{date1}-{date2}.png with every space replaced by a hyphen
LabelKey(y, l1, l2) ==
    Replace(Concat(<<<<"w", "e", "e", "k", "l", "y", "/">>, IntToStr(y), <<"/">>,
                     l1, <<"-">>, l2, PngExt>>), " ", "-")

\* C7: the key of a weekly upload is weekly/{year}/{date1}-{date2}.png over
\* the labels "<month-name> <day>" with spaces replaced by hyphens, and has
\* no whitespace.
C7_Original ==
    \A i \in Reqs :
        UploadedKind(i, "weekly") =>
            /\ \E y \in {body[i].year1, body[i].year2} :
                LastPut(i).object_name =
                    LabelKey(y, DateLabel(body[i].month1, body[i].day1),
                             DateLabel(body[i].month2, body[i].day2))
            /\ ~HasWhitespace(LastPut(i).object_name)

Stem(s) == SubSeq(s, 1, Len(s) - 4)
Ext(s) == SubSeq(s, Len(s) - 3, Len(s))
\* s is the lowercase month name m, "_", and the day d in decimal, unpadded
IsMonthDay(s, m, d) ==
    LET parts == Split(s, "_") IN
    /\ Len(parts) = 2
    /\ parts[1] = m /\ IsLower(m)
    /\ IsNumeral(parts[2]) /\ ParseInt(parts[2]) = d
    /\ Len(parts[2]) = (IF d < 10 THEN 1 ELSE 2)

\* C7 as amended: the key of a weekly upload is
\* weekly/{year2}/{month2}/{month1}_{day1}-{month2}_{day2}.png, with the
\* lowercase month names and the days in decimal, and has no whitespace.
C7_WeeklyKeyForm ==
    \A i \in Reqs :
        UploadedKind(i, "weekly") =>
            LET key == LastPut(i).object_name
                segs == Split(key, "/")
            IN /\ Len(segs) = 4
               /\ segs[1] = <<"w", "e", "e", "k", "l", "y">>
               /\ IsNumeral(segs[2]) /\ ParseInt(segs[2]) = body[i].year2
               /\ segs[3] = body[i].month2
               /\ Len(segs[4]) > 4 /\ Ext(segs[4]) = <<".", "p", "n", "g">>
               /\ LET halves == Split(Stem(segs[4]), "-") IN
                  /\ Len(halves) = 2
                  /\ IsMonthDay(halves[1], body[i].month1, body[i].day1)
                  /\ IsMonthDay(halves[2], body[i].month2, body[i].day2)
               /\ ~HasWhitespace(key)

\* a weekly cover whose two dates differ in year and month was uploaded,
\* with a one-digit and a two-digit day
C7_Witness ==
    /\ \E i \in Reqs :
        /\ UploadedKind(i, "weekly") /\ LastPut(i).ok
        /\ body[i].year1 # body[i].year2 /\ body[i].day1 < 10 /\ body[i].day2 >= 10
    /\ \E i \in Reqs :
        UploadedKind(i, "weekly") /\ body[i].month1 # body[i].month2

(* ------------------------------------------------------------------ *)
(* C8                                                                   *)
(* ------------------------------------------------------------------ *)
\* C8: the key of a monthly upload is monthly/{year}/{month}.png, the bucket
\* is playlist-covers, the url returned is
\* https://{storage_endpoint}/{bucket}/{object_key} for that key, and two
\* identical requests get the same key and the same url.
C8_MonthlyKeyAndUrl ==
    /\ \A i \in Reqs :
        UploadedKind(i, "monthly") =>
            LET key == LastPut(i).object_name
                segs == Split(key, "/")
                bucket == <<"p", "l", "a", "y", "l", "i", "s", "t", "-",
                            "c", "o", "v", "e", "r", "s">>
            IN /\ Len(segs) = 3
               /\ segs[1] = <<"m", "o", "n", "t", "h", "l", "y">>
               /\ IsNumeral(segs[2]) /\ ParseInt(segs[2]) = body[i].year
               /\ segs[3] = body[i].month \o <<".", "p", "n", "g">>
               /\ body[i].month \in CanonicalMonths /\ IsLower(body[i].month)
               /\ LastPut(i).bucket_name = bucket
               /\ resp[i].status = 200 =>
                    Split(resp[i].url, "/") =
                        <<<<"h", "t", "t", "p", "s", ":">>, <<>>, S3_URL, bucket>> \o segs
    /\ \A i, j \in Reqs :
        (/\ body[i].kind = "monthly" /\ body[i] = body[j]
         /\ resp[i].status = 200 /\ resp[j].status = 200) =>
            /\ LastPut(i).object_name = LastPut(j).object_name
            /\ resp[i].url = resp[j].url

\* the identical monthly request was issued twice and answered twice
C8_Witness ==
    \E i, j \in Reqs :
        /\ i # j /\ body[i].kind = "monthly" /\ body[i] = body[j]
        /\ resp[i].status = 200 /\ resp[j].status = 200

(* ------------------------------------------------------------------ *)
(* C10                                                                  *)
(* ------------------------------------------------------------------ *)
IsPlaque(q, x, y, w, h, tx, ty) ==
    /\ q.x = x /\ q.y = y /\ q.w = w /\ q.h = h /\ q.tx = tx /\ q.ty = ty
InsideCanvas(q) ==
    /\ q.x >= 0 /\ q.y >= 0 /\ q.x + q.w <= 600 /\ q.y + q.h <= 600

\* C10: on the 600x600 canvas the monthly plaque is 540x90 at (60, 490)
\* with its text at (80, 490); the weekly plaques are 540x90 at (0, 20) and
\* at (60, 490) with their texts at (20, 20) and (80, 490); every plaque
\* lies inside the canvas.
C10_PlaqueGeometry ==
    \A p \in DOMAIN fs :
        LET img == fs[p].image
            kind == body[fs[p].writer].kind
        IN /\ img.size = [w |-> 600, h |-> 600]
           /\ kind = "monthly" =>
                /\ Len(img.plaques) = 1
                /\ IsPlaque(img.plaques[1], 60, 490, 540, 90, 80, 490)
           /\ kind = "weekly" =>
                /\ Len(img.plaques) = 2
                /\ IsPlaque(img.plaques[1], 0, 20, 540, 90, 20, 20)
                /\ IsPlaque(img.plaques[2], 60, 490, 540, 90, 80, 490)
           /\ \A k \in 1..Len(img.plaques) : InsideCanvas(img.plaques[k])

\* a monthly and a weekly image were both rendered to the end
C10_Witness ==
    \E p, q \in DOMAIN fs :
        /\ fs[p].complete /\ body[fs[p].writer].kind = "monthly"
        /\ fs[q].complete /\ body[fs[q].writer].kind = "weekly"

====
